---- MODULE Spec2Model ----
(***************************************************************************)
(* Model of node-subler (src/src/subler.ts): the Atoms metadata collection *)
(* and the Subler command builder.  Strings are sequences of one-character *)
(* strings, so that escaping, rendering and path arithmetic are computed   *)
(* character by character as the code computes them.  A JavaScript falsy   *)
(* string (undefined or '') is the empty sequence.                         *)
(***************************************************************************)
EXTENDS Integers, Sequences, FiniteSets, TLC

VARIABLES subler, inner, origin, fs, ret, last

vars == <<subler, inner, origin, fs, ret, last>>

(* ------------------------------ bounds --------------------------------- *)
MaxAtoms == 2
MaxFiles == 3
MaxValLen == 3

(* ----------------------------- characters ------------------------------ *)
BS == "\\"
SQ == "'"
NL == "\n"
CR == "\r"
TAB == "\t"

Undefined == <<>>

Truthy(s) == s # <<>>

Digits == <<"0", "1", "2", "3", "4", "5", "6", "7", "8", "9">>

RECURSIVE ToStr(_)
ToStr(n) ==
    IF n < 10 THEN <<Digits[n + 1]>>
    ELSE ToStr(n \div 10) \o <<Digits[(n % 10) + 1]>>

RECURSIVE Concat(_)
Concat(ss) == IF ss = <<>> THEN <<>> ELSE Head(ss) \o Concat(Tail(ss))

IsPrefix(s, t) == Len(s) <= Len(t) /\ SubSeq(t, 1, Len(s)) = s

(* ------------------------- path (posix) -------------------------------- *)
LastIndexOf(s, c) ==
    LET I == {i \in 1..Len(s) : s[i] = c}
    IN  IF I = {} THEN 0 ELSE CHOOSE i \in I : \A j \in I : j <= i

RECURSIVE Split(_)
Split(s) ==
    LET I == {i \in 1..Len(s) : s[i] = "/"}
    IN  IF I = {} THEN <<s>>
        ELSE LET k == CHOOSE i \in I : \A j \in I : i <= j
             IN  <<SubSeq(s, 1, k - 1)>> \o Split(SubSeq(s, k + 1, Len(s)))

RECURSIVE Resolve(_, _, _)
Resolve(segs, acc, abs) ==
    IF segs = <<>> THEN acc
    ELSE LET h == Head(segs)
             t == Tail(segs)
         IN  IF h = <<>> \/ h = <<".">> THEN Resolve(t, acc, abs)
             ELSE IF h = <<".", ".">>
                  THEN IF acc # <<>> /\ acc[Len(acc)] # <<".", ".">>
                       THEN Resolve(t, SubSeq(acc, 1, Len(acc) - 1), abs)
                       ELSE IF abs THEN Resolve(t, acc, abs)
                            ELSE Resolve(t, Append(acc, h), abs)
                  ELSE Resolve(t, Append(acc, h), abs)

RECURSIVE JoinSegs(_)
JoinSegs(segs) ==
    IF segs = <<>> THEN <<>>
    ELSE IF Len(segs) = 1 THEN Head(segs)
    ELSE Head(segs) \o <<"/">> \o JoinSegs(Tail(segs))

Normalized(abs, trail, body) ==
    IF body = <<>>
    THEN IF abs THEN <<"/">> ELSE IF trail THEN <<".", "/">> ELSE <<".">>
    ELSE (IF abs THEN <<"/">> ELSE <<>>) \o body \o (IF trail THEN <<"/">> ELSE <<>>)

normalize(p) ==
    IF p = <<>> THEN <<".">>
    ELSE Normalized(p[1] = "/", p[Len(p)] = "/",
                    JoinSegs(Resolve(Split(p), <<>>, p[1] = "/")))

join(dir, file) ==
    IF dir = <<>> THEN normalize(file)
    ELSE normalize(dir \o <<"/">> \o file)

StripTrail(p) ==
    LET K == {k \in 1..Len(p) : p[k] # "/"}
    IN  IF K = {} THEN <<>>
        ELSE SubSeq(p, 1, CHOOSE k \in K : \A j \in K : j <= k)

ParsedBase(dir, base, ld) ==
    IF ld > 1 /\ base # <<".", ".">>
    THEN [dir |-> dir, name |-> SubSeq(base, 1, ld - 1), ext |-> SubSeq(base, ld, Len(base))]
    ELSE [dir |-> dir, name |-> base, ext |-> <<>>]

ParsedDir(p, q, ls, dirRaw) ==
    IF q = <<>> THEN (IF p = <<>> THEN <<>> ELSE <<"/">>)
    ELSE IF ls > 0 /\ dirRaw = <<>> THEN <<"/">> ELSE dirRaw

ParsedAt(p, q, ls) ==
    ParsedBase(ParsedDir(p, q, ls, IF ls = 0 THEN <<>> ELSE StripTrail(SubSeq(q, 1, ls - 1))),
               SubSeq(q, ls + 1, Len(q)),
               LastIndexOf(SubSeq(q, ls + 1, Len(q)), "."))

ParsedStripped(p, q) == ParsedAt(p, q, LastIndexOf(q, "/"))

parse(p) == ParsedStripped(p, StripTrail(p))

(* --------------------------- filesystem -------------------------------- *)
existsSync(f, p) == p # <<>> /\ normalize(p) \in f

(* ------------------------------ literals ------------------------------- *)
DashSource == <<"-", "s", "o", "u", "r", "c", "e">>
DashDest == <<"-", "d", "e", "s", "t">>
DashMetadata == <<"-", "m", "e", "t", "a", "d", "a", "t", "a">>
DashChaptersPreview == <<"-", "c", "h", "a", "p", "t", "e", "r", "s", "p", "r", "e", "v", "i", "e", "w">>
DashOptimize == <<"-", "o", "p", "t", "i", "m", "i", "z", "e">>
DashOrganizeGroups == <<"-", "o", "r", "g", "a", "n", "i", "z", "e", "g", "r", "o", "u", "p", "s">>
Dash64BitChunk == <<"-", "6", "4", "b", "i", "t", "c", "h", "u", "n", "k">>

SourceNotFound == "Source file does not exist."
DestinationNotFound == "Destination Not Found!"

MOVIE == <<"M", "o", "v", "i", "e">>
MUSIC == <<"M", "u", "s", "i", "c">>
MediaKind == {MOVIE, MUSIC}

TagCast == <<"C", "a", "s", "t">>
TagArtwork == <<"A", "r", "t", "w", "o", "r", "k">>
TagName == <<"N", "a", "m", "e">>
TagMediaKind == <<"M", "e", "d", "i", "a", " ", "K", "i", "n", "d">>

AtomTag ==
    [cast |-> TagCast, artwork |-> TagArtwork, name |-> TagName,
     title |-> TagName, mediaKind |-> TagMediaKind]

(* ------------------------------- Atom ---------------------------------- *)
Atom(tag, val) == [tag |-> tag, value |-> val]

\* /[\n|\r]+/ : a character class, so '|' is a member of it.
InNewlineClass(c) == c \in {NL, "|", CR}

RECURSIVE ReplaceNewlineRuns(_)
ReplaceNewlineRuns(s) ==
    IF s = <<>> THEN <<>>
    ELSE IF InNewlineClass(Head(s))
         THEN LET K == {k \in 1..Len(s) : ~InNewlineClass(s[k])}
                  n == IF K = {} THEN Len(s) + 1
                       ELSE CHOOSE k \in K : \A j \in K : k <= j
              IN  <<" ">> \o ReplaceNewlineRuns(SubSeq(s, n, Len(s)))
         ELSE <<Head(s)>> \o ReplaceNewlineRuns(Tail(s))

RECURSIVE EscapeQuotes(_)
EscapeQuotes(s) ==
    IF s = <<>> THEN <<>>
    ELSE (IF Head(s) = SQ THEN <<BS, SQ>> ELSE <<Head(s)>>) \o EscapeQuotes(Tail(s))

arg(atom) ==
    LET escapedValue == EscapeQuotes(ReplaceNewlineRuns(atom.value))
        quoted == IF atom.tag # AtomTag.artwork
                  THEN <<SQ>> \o escapedValue \o <<SQ>>
                  ELSE escapedValue
    IN  <<"{", SQ>> \o atom.tag \o <<SQ, ":">> \o quoted \o <<"}">>

(* ------------------------------- Atoms --------------------------------- *)
\* Variant: the flag is emitted for an empty collection as well.
args_alwaysFlag(in) ==
    <<DashMetadata, Concat([i \in 1..Len(in) |-> arg(in[i])])>>

args(in) ==
    IF Len(in) > 0
    THEN <<DashMetadata, Concat([i \in 1..Len(in) |-> arg(in[i])])>>
    ELSE <<>>

metadataTags ==
    <<AtomTag.cast, AtomTag.artwork, AtomTag.name, AtomTag.title, AtomTag.mediaKind>>

(* ------------------------------ Subler --------------------------------- *)
\* Variant: the single quote is left out of the pattern.
IsShellSpecial_noQuote(c) == c \in {" ", TAB, NL, CR, "\f", "&"}

\* /\s|&|'/g replaced by '\\$&'
IsShellSpecial(c) == c \in {" ", TAB, NL, CR, "\f", "&", SQ}

RECURSIVE EscapePath(_)
EscapePath(s) ==
    IF s = <<>> THEN <<>>
    ELSE (IF IsShellSpecial(Head(s)) THEN <<BS, Head(s)>> ELSE <<Head(s)>>)
         \o EscapePath(Tail(s))

Suffixed(path, i) == join(path.dir, path.name \o <<".">> \o ToStr(i) \o path.ext)

Candidate(p, i) == Suffixed(parse(p), i)

\* A resolution: the path handed back (Undefined for none) and the existsSync
\* probes made on the way.
Resolved(path, probes) == [path |-> path, probes |-> probes]

\* The recursive call is made, so its probes happen, and its value is dropped:
\* the caller gets undefined whenever the i-th candidate exists.
Dropped(dest, r) == Resolved(Undefined, <<dest>> \o r.probes)

RECURSIVE nextAvailablePath(_, _, _)
RECURSIVE nextAvailableAt(_, _, _, _)
nextAvailableAt(f, p, i, dest) ==
    IF existsSync(f, dest)
    THEN Dropped(dest, nextAvailablePath(f, p, i + 1))
    ELSE Resolved(dest, <<dest>>)

nextAvailablePath(f, p, i) == nextAvailableAt(f, p, i, Candidate(p, i))

AfterProbe(d, r) == Resolved(r.path, <<d>> \o r.probes)

\* Variant: an explicit destination is used without looking at the filesystem.
determineDest_noCheck(f, s) ==
    IF Truthy(s.dest)
    THEN Resolved(s.dest, <<>>)
    ELSE nextAvailablePath(f, s.source, 0)

determineDest(f, s) ==
    IF Truthy(s.dest)
    THEN IF existsSync(f, s.dest)
         THEN AfterProbe(s.dest, nextAvailablePath(f, s.dest, 0))
         ELSE Resolved(s.dest, <<s.dest>>)
    ELSE nextAvailablePath(f, s.source, 0)

\* Variant: the Media Kind atom is added only when none is present yet.
withMediaKind_once(in, s) ==
    IF Truthy(s.mediaKind) /\ ~\E i \in 1..Len(in) : in[i].tag = TagMediaKind
    THEN Append(in, Atom(TagMediaKind, s.mediaKind))
    ELSE in

withMediaKind(in, s) ==
    IF Truthy(s.mediaKind) THEN Append(in, Atom(TagMediaKind, s.mediaKind)) ELSE in

\* Variant: -optimize pushed before -chapterspreview.
flagArgs_swapped(s) ==
    (IF s.optimize THEN <<DashOptimize>> ELSE <<>>)
    \o (IF s.chaptersPreview THEN <<DashChaptersPreview>> ELSE <<>>)
    \o (IF s.organizeGroups THEN <<DashOrganizeGroups>> ELSE <<>>)
    \o (IF s.bitChunk64 THEN <<Dash64BitChunk>> ELSE <<>>)

flagArgs(s) ==
    (IF s.chaptersPreview THEN <<DashChaptersPreview>> ELSE <<>>)
    \o (IF s.optimize THEN <<DashOptimize>> ELSE <<>>)
    \o (IF s.organizeGroups THEN <<DashOrganizeGroups>> ELSE <<>>)
    \o (IF s.bitChunk64 THEN <<Dash64BitChunk>> ELSE <<>>)

\* A value handed back to the caller: the args of a command or of
\* Atoms.args(), the resolved destination, and the existsSync probes made.
\* The executable path (env.SUBLER_PATH or the default) is not part of it.
Returned(kind, a, d, chk) ==
    [kind |-> kind, args |-> a, dest |-> d, checked |-> chk]

\* Lines 150-181: the destination check and the argument assembly.
Assembled(s, atoms1, d) ==
    IF ~Truthy(d.path)
    THEN [atoms |-> atoms1,
          out |-> Returned(DestinationNotFound, <<>>, Undefined, <<s.source>> \o d.probes)]
    ELSE [atoms |-> atoms1,
          out |-> Returned("command",
                           <<DashSource, EscapePath(s.source)>>
                           \o <<DashDest, EscapePath(d.path)>>
                           \o args(atoms1)
                           \o flagArgs(s),
                           d.path, <<s.source>> \o d.probes)]

SourceMissing(s, atoms1) ==
    [atoms |-> atoms1,
     out |-> Returned(SourceNotFound, <<>>, Undefined, <<s.source>>)]

\* Variant: the Media Kind atom is appended before the source is checked.
buildTagCommand_kindFirst(f, s, in) ==
    IF ~existsSync(f, s.source)
    THEN SourceMissing(s, withMediaKind(in, s))
    ELSE Assembled(s, withMediaKind(in, s), determineDest(f, s))

\* buildTagCommand as a function of the filesystem, the builder and the
\* collection: the collection afterwards and the outcome.
buildTagCommand(f, s, in) ==
    IF ~existsSync(f, s.source)
    THEN SourceMissing(s, in)
    ELSE Assembled(s, withMediaKind(in, s), determineDest(f, s))

DestArg(out) == IF out.kind = "command" THEN out.args[4] ELSE Undefined

(* ------------------------- inputs of the model ------------------------- *)
SrcSpecial == <<"d", "/", "a", " ", "&", SQ, TAB, ".", "m">>
DestPlain == <<".", "/", "o", ".", "m">>
Sources == {SrcSpecial}

ValQuote == <<"J", SQ, "s">>
AddTags == {TagArtwork}
AddValues == {ValQuote}
HelperIdents == {"mediaKind"}
HelperValues == {MOVIE}
OtherAtoms == {<<>>, <<Atom(TagArtwork, ValQuote), Atom(TagArtwork, ValQuote)>>}

Base(s) == IF Truthy(s.dest) THEN s.dest ELSE s.source

\* The smallest i >= 0 such that no file exists at the i-th candidate.
MinFree(f, p) ==
    CHOOSE i \in 0..Cardinality(f) :
        /\ ~existsSync(f, Candidate(p, i))
        /\ \A j \in 0..(i - 1) : existsSync(f, Candidate(p, j))

\* The paths buildTagCommand can probe: the source, the explicit destination
\* and the candidates up to the first free one.  A file behind the first free
\* candidate is never probed, so other processes are modelled as creating the
\* first free candidate and removing the last taken one.
CreatableAt(s, f, n) ==
    {normalize(s.source), normalize(Base(s)), Candidate(Base(s), n)} \ f

Creatable(s, f) == CreatableAt(s, f, MinFree(f, Base(s)))

RemovableAt(s, f, n) ==
    {normalize(s.source), normalize(Base(s)), Candidate(Base(s), IF n > 0 THEN n - 1 ELSE 0)} \cap f

Removable(s, f) == RemovableAt(s, f, MinFree(f, Base(s)))

(* ------------------------------ state ---------------------------------- *)
\* What a chainable method returns (the receiver), and what build() and
\* metadataTags() return (an alias of inner, the constant tag list): no
\* value of its own is kept for them.
This == Returned("this", <<>>, Undefined, <<>>)

\* The outcome of the latest buildTagCommand, forgotten as soon as the
\* filesystem changes or dest() is called.
NoLast == [valid |-> FALSE, kind |-> "", destArg |-> Undefined]

NewSubler(source) ==
    [source |-> source,
     dest |-> Undefined,
     chaptersPreview |-> TRUE,
     optimize |-> TRUE,
     organizeGroups |-> TRUE,
     bitChunk64 |-> TRUE,
     mediaKind |-> MOVIE]

Init ==
    /\ \E source \in Sources :
          /\ subler = NewSubler(source)
          /\ fs \in {{}, {normalize(source)}}
    /\ inner = <<>>
    /\ origin = <<>>
    /\ ret = This
    /\ last = NoLast

(* --------------------------- Atoms operations -------------------------- *)
\* Array.prototype.push(...atoms) on inner.
\* Variant: an atom whose tag is already present replaces the older one.
push_replaceTag(in, atoms) ==
    LET Fresh(a) == ~\E i \in 1..Len(atoms) : atoms[i].tag = a.tag
    IN  SelectSeq(in, Fresh) \o atoms

push(in, atoms) == in \o atoms

Appended(atoms) ==
    /\ Len(inner) + Len(atoms) <= MaxAtoms
    /\ inner' = push(inner, atoms)
    /\ origin' = origin \o [i \in 1..Len(atoms) |-> "caller"]
    /\ ret' = This
    /\ UNCHANGED <<subler, fs, last>>

Atoms_add ==
    \E tag \in AddTags, val \in AddValues : Appended(<<Atom(tag, val)>>)

Atoms_addAtom ==
    \E tag \in AddTags, val \in AddValues : Appended(<<Atom(tag, val)>>)

Atoms_addAtoms ==
    \E other \in OtherAtoms \cup {inner} : Appended(other)

Atoms_helper ==
    \E ident \in HelperIdents, value \in HelperValues :
        Appended(<<Atom(AtomTag[ident], value)>>)

Queried(out) ==
    /\ ret' = out
    /\ UNCHANGED <<subler, inner, origin, fs, last>>

Atoms_args == Queried(Returned("args", args(inner), Undefined, <<>>))

Atoms_build == Queried(This)

Atoms_metadataTags ==
    /\ Len(metadataTags) > 0
    /\ Queried(This)

(* -------------------------- Subler operations -------------------------- *)
Subler_optimise ==
    \E value \in BOOLEAN :
        /\ subler' = [subler EXCEPT !.optimize = value]
        /\ ret' = This
        /\ UNCHANGED <<inner, origin, fs, last>>

Subler_mediaKind ==
    \E kind \in MediaKind :
        /\ subler' = [subler EXCEPT !.mediaKind = kind]
        /\ ret' = This
        /\ UNCHANGED <<inner, origin, fs, last>>

Subler_dest ==
    \E dest \in {DestPlain, subler.source} :
        /\ subler' = [subler EXCEPT !.dest = dest]
        /\ ret' = This
        /\ last' = NoLast
        /\ UNCHANGED <<inner, origin, fs>>

Built(r) ==
    /\ Len(r.atoms) <= MaxAtoms
    /\ inner' = r.atoms
    /\ origin' = origin \o [i \in 1..(Len(r.atoms) - Len(inner)) |-> "build"]
    /\ ret' = r.out
    /\ last' = [valid |-> TRUE, kind |-> r.out.kind, destArg |-> DestArg(r.out)]
    /\ UNCHANGED <<subler, fs>>

Subler_buildTagCommand == Built(buildTagCommand(fs, subler, inner))

(* ---------------- the filesystem changed by other processes ------------ *)
Ext_create ==
    \E p \in Creatable(subler, fs) :
        /\ Cardinality(fs) < MaxFiles
        /\ fs' = fs \cup {p}
        /\ ret' = This
        /\ last' = NoLast
        /\ UNCHANGED <<subler, inner, origin>>

Ext_remove ==
    \E p \in Removable(subler, fs) :
        /\ fs' = fs \ {p}
        /\ ret' = This
        /\ last' = NoLast
        /\ UNCHANGED <<subler, inner, origin>>

Next ==
    \/ Atoms_add
    \/ Atoms_addAtom
    \/ Atoms_addAtoms
    \/ Atoms_helper
    \/ Atoms_args
    \/ Atoms_build
    \/ Atoms_metadataTags
    \/ Subler_optimise
    \/ Subler_mediaKind
    \/ Subler_dest
    \/ Subler_buildTagCommand
    \/ Ext_create
    \/ Ext_remove

Spec == Init /\ [][Next]_vars

(* -------- Atom.arg() as a function of its inputs (SpecArg) ------------- *)
ValueAlphabet == {"a", SQ, NL, CR, "|"}
ArgValues == UNION {[1..k -> ValueAlphabet] : k \in 0..MaxValLen}
ArgTags == {TagCast, TagArtwork}

InitArg ==
    /\ \E tag \in ArgTags, val \in ArgValues : inner = <<Atom(tag, val)>>
    /\ origin = <<"caller">>
    /\ subler = NewSubler(SrcSpecial)
    /\ fs = {}
    /\ ret = This
    /\ last = NoLast

Atom_arg ==
    /\ ret' = Returned("arg", <<arg(inner[1])>>, Undefined, <<>>)
    /\ UNCHANGED <<subler, inner, origin, fs, last>>

NextArg == Atom_arg

SpecArg == InitArg /\ [][NextArg]_vars

(* ======================= properties of the builder ===================== *)
BuildKinds == {"command", SourceNotFound, DestinationNotFound}

\* A state right after a buildTagCommand that passed the source check.  The
\* call leaves fs and subler alone, so they are those the call has seen.
BuildPassed == ret.kind \in {"command", DestinationNotFound}

NeedsSuffix == ~Truthy(subler.dest) \/ existsSync(fs, subler.dest)

\* C1: whenever buildTagCommand has to pick a suffixed destination and the
\* source exists, the destination is <dir>/<name>.<i><ext> for the smallest
\* i >= 0 at which no file exists.
C1_SuffixSearch ==
    (BuildPassed /\ NeedsSuffix) =>
        /\ ret.kind = "command"
        /\ ret.dest = Candidate(Base(subler), MinFree(fs, Base(subler)))

\* C2: with a missing source, buildTagCommand fails with the source-not-found
\* error after probing the source only: no destination probe, no Media Kind
\* atom, no argument, and builder and collection untouched.
C2_SourceNotFoundFirst ==
    [][(ret'.kind \in BuildKinds /\ ~existsSync(fs, subler.source)) =>
          /\ ret'.kind = SourceNotFound
          /\ ret'.checked = <<subler.source>>
          /\ ret'.args = <<>>
          /\ ret'.dest = Undefined
          /\ inner' = inner
          /\ subler' = subler]_vars

C2_Witness ==
    /\ ret.kind = SourceNotFound
    /\ Truthy(subler.mediaKind)
    /\ Truthy(subler.dest)
    /\ existsSync(fs, subler.dest)
    /\ Len(inner) = 1

\* C3: two buildTagCommand calls on the same builder with the source existing
\* and no filesystem change and no dest() call between them both succeed and
\* return the same -dest argument.
C3_DestIdempotent ==
    [][(ret'.kind \in BuildKinds /\ last.valid /\ existsSync(fs, subler.source)) =>
          /\ last.kind = "command"
          /\ ret'.kind = "command"
          /\ DestArg(ret') = last.destArg]_vars

\* C4: the destination-not-found error is unreachable: when the source exists
\* buildTagCommand returns a command whatever the dest setting.
C4_DestinationAlwaysResolved ==
    (ret.kind \in BuildKinds /\ existsSync(fs, subler.source)) =>
        (ret.kind = "command" /\ Truthy(ret.dest))

SwitchTable ==
    <<[sw |-> DashChaptersPreview, on |-> subler.chaptersPreview],
      [sw |-> DashOptimize, on |-> subler.optimize],
      [sw |-> DashOrganizeGroups, on |-> subler.organizeGroups],
      [sw |-> Dash64BitChunk, on |-> subler.bitChunk64]>>

IsOn(r) == r.on

EnabledSwitches ==
    LET sel == SelectSeq(SwitchTable, IsOn)
    IN  [i \in 1..Len(sel) |-> sel[i].sw]

Occurs(x, a) == \E i \in 1..Len(a) : a[i] = x

\* C5: a returned command's args are -source, escaped source, -dest, escaped
\* destination, the collection's rendered arguments (none or two), then the
\* switches of the enabled flags in the order chapterspreview, optimize,
\* organizegroups, 64bitchunk; a disabled flag contributes no element.
C5_ArgumentLayout ==
    ret.kind = "command" =>
        LET a == ret.args
            m == IF inner = <<>> THEN 0 ELSE 2
        IN  /\ Len(a) = 4 + m + Len(EnabledSwitches)
            /\ a[1] = DashSource
            /\ a[2] = EscapePath(subler.source)
            /\ a[3] = DashDest
            /\ a[4] = EscapePath(ret.dest)
            /\ m = 2 => a[5] = DashMetadata
            /\ SubSeq(a, 5 + m, Len(a)) = EnabledSwitches
            /\ \A i \in 1..4 : ~SwitchTable[i].on => ~Occurs(SwitchTable[i].sw, a)

C5_Witness ==
    /\ ret.kind = "command"
    /\ ~subler.optimize
    /\ Len(inner) > 0

ClaimSpecial(c) == c \in {" ", TAB, NL, CR, "\f", "&", SQ}

\* e is p with one backslash put before each special character and every
\* other character copied in order.
IsEscapeOf(e, p) ==
    LET pos(i) == i + Cardinality({j \in 1..i : ClaimSpecial(p[j])})
    IN  /\ Len(e) = Len(p) + Cardinality({j \in 1..Len(p) : ClaimSpecial(p[j])})
        /\ \A i \in 1..Len(p) :
              /\ e[pos(i)] = p[i]
              /\ ClaimSpecial(p[i]) => e[pos(i) - 1] = BS

\* C6: the -source and -dest arguments are the source and the destination
\* with each whitespace character, & and ' prefixed by exactly one backslash
\* and every other character copied unchanged in order.
C6_PathEscaping ==
    /\ ret.kind = "command" =>
          /\ IsEscapeOf(ret.args[2], subler.source)
          /\ IsEscapeOf(ret.args[4], ret.dest)
          /\ (\A i \in 1..Len(ret.dest) : ~ClaimSpecial(ret.dest[i])) => ret.args[4] = ret.dest
    /\ EscapePath(<<"d", "e", "s", "t", " ", "&", " ", "p", "a", "t", "h">>)
         = <<"d", "e", "s", "t", BS, " ", BS, "&", BS, " ", "p", "a", "t", "h">>
    /\ EscapePath(<<"d", "e", "s", "t", SQ, "s", " ", "p", "a", "t", "h">>)
         = <<"d", "e", "s", "t", BS, SQ, "s", BS, " ", "p", "a", "t", "h">>
    /\ EscapePath(<<"d", "e", "s", "t", "/", "p", "a", "t", "h">>)
         = <<"d", "e", "s", "t", "/", "p", "a", "t", "h">>

C6_Witness ==
    /\ ret.kind = "command"
    /\ subler.dest = SrcSpecial
    /\ ret.dest = Candidate(SrcSpecial, 0)

\* The value as the claim renders it: a newline or carriage return opens a
\* run and yields one space, the rest of the run yields nothing, a single
\* quote gets a backslash, any other character stays.
ClaimValue(v) ==
    Concat([i \in 1..Len(v) |->
        IF v[i] \in {NL, CR}
        THEN IF i > 1 /\ v[i - 1] \in {NL, CR} THEN <<>> ELSE <<" ">>
        ELSE IF v[i] = SQ THEN <<BS, SQ>> ELSE <<v[i]>>])

ClaimArg(atom) ==
    <<"{", SQ>> \o atom.tag \o <<SQ, ":">>
    \o (IF atom.tag = TagArtwork THEN ClaimValue(atom.value)
        ELSE <<SQ>> \o ClaimValue(atom.value) \o <<SQ>>)
    \o <<"}">>

\* C7: Atom.arg() is {'<tag>':<V>}, V the value with each maximal run of
\* newlines/carriage returns replaced by one space and each single quote
\* prefixed by a backslash, nothing else altered, quoted unless the tag is
\* Artwork.
C7_AtomRendering ==
    ret.kind = "arg" => ret.args[1] = ClaimArg(inner[1])

RECURSIVE RenderAll(_)
RenderAll(in) == IF in = <<>> THEN <<>> ELSE arg(Head(in)) \o RenderAll(Tail(in))

CountOrigin(o, w) == Cardinality({i \in 1..Len(o) : o[i] = w})

C8_Render ==
    ret.kind = "args" =>
        /\ inner = <<>> => ret.args = <<>>
        /\ inner # <<>> => ret.args = <<DashMetadata, RenderAll(inner)>>

\* C8 as stated: an empty collection renders to nothing and a command built
\* by a Subler constructed with that empty collection has no -metadata flag;
\* a non-empty one renders to -metadata and the concatenated renderings.
C8_EmptyCollectionNoFlag ==
    /\ C8_Render
    /\ (ret.kind = "command" /\ CountOrigin(origin, "caller") = 0) =>
          ~Occurs(DashMetadata, ret.args)

\* C8 amended: an empty collection renders to nothing, a non-empty one to
\* -metadata and the concatenated renderings in insertion order; a returned
\* command has the -metadata flag exactly when the collection is non-empty
\* after that build's Media Kind append, hence always when a media kind is set.
C8_FlagIffNonEmptyAtRender ==
    /\ C8_Render
    /\ ret.kind = "command" =>
          /\ Occurs(DashMetadata, ret.args) <=> inner # <<>>
          /\ inner # <<>> =>
                (ret.args[5] = DashMetadata /\ ret.args[6] = RenderAll(inner))
          /\ Truthy(subler.mediaKind) => Occurs(DashMetadata, ret.args)

C8_Witness ==
    /\ ret.kind = "command"
    /\ CountOrigin(origin, "caller") = 0
    /\ ret.args[6] = arg(Atom(TagMediaKind, MOVIE))

CountSub(s, pat) ==
    Cardinality({i \in 1..(Len(s) - Len(pat) + 1) : SubSeq(s, i, i + Len(pat) - 1) = pat})

MediaKindGroupOpen == <<"{", SQ>> \o TagMediaKind \o <<SQ, ":">>

CallerMediaKinds(in, o) ==
    Cardinality({i \in 1..Len(in) : o[i] = "caller" /\ in[i].tag = TagMediaKind})

\* What C9 says of every buildTagCommand step that passes the source check
\* with a media kind set, but for the number of groups in the string.
C9_Step ==
    /\ inner' = Append(inner, Atom(TagMediaKind, subler.mediaKind))
    /\ Len(origin') = Len(inner')
    /\ Len(inner') = CountOrigin(origin', "caller") + CountOrigin(origin, "build") + 1
    /\ (ret'.kind = "command" /\ ret.kind = "command") => ret'.args # ret.args

\* C9 as stated: every buildTagCommand that passes the source check with a
\* media kind set appends exactly one Media Kind atom valued with the current
\* media kind to the end of the collection, also when destination resolution
\* then fails; after k such calls the collection holds k atoms more than the
\* caller added, a returned -metadata string holds k Media Kind groups, and
\* two successive builds never return equal args.
C9_MediaKindGroupsExact ==
    [][(ret'.kind \in {"command", DestinationNotFound} /\ Truthy(subler.mediaKind)) =>
          /\ C9_Step
          /\ ret'.kind = "command" =>
                CountSub(ret'.args[6], MediaKindGroupOpen) = CountOrigin(origin, "build") + 1]_vars

\* C9 amended: as stated, but the returned -metadata string holds k Media Kind
\* groups besides one for each Media Kind atom the caller added itself.
C9_MediaKindAppended ==
    [][(ret'.kind \in {"command", DestinationNotFound} /\ Truthy(subler.mediaKind)) =>
          /\ C9_Step
          /\ ret'.kind = "command" =>
                CountSub(ret'.args[6], MediaKindGroupOpen)
                  = CountOrigin(origin, "build") + 1 + CallerMediaKinds(inner, origin)]_vars

C9_Witness ==
    /\ ret.kind = DestinationNotFound
    /\ origin = <<"caller", "build">>
    /\ inner[1].tag = TagMediaKind
    /\ subler.mediaKind = MUSIC

\* C10: the atom sequence before each operation is a prefix of the sequence
\* after it; add, addAtom and each helper extend it by exactly one atom,
\* addAtoms(other) by other's atoms in other's order, args(), build() and
\* metadataTags() by none.
C10_AppendOnly ==
    [][/\ IsPrefix(inner, inner')
       /\ Len(inner') = Len(inner) + 1 \/ ~(Atoms_add \/ Atoms_addAtom \/ Atoms_helper)
       /\ \A other \in OtherAtoms \cup {inner} : inner' = inner \o other \/ ~Appended(other)
       /\ inner' = inner \/ ~(Atoms_args \/ Atoms_build \/ Atoms_metadataTags)]_vars

C10_Witness ==
    /\ Len(inner) = 2
    /\ inner[1].tag = inner[2].tag
    /\ origin = <<"caller", "caller">>

\* C11: in every returned command the unescaped destination is a path the
\* build has probed and found no file at, it is not the source path (nor
\* another spelling of it), whatever the dest setting and the filesystem; an
\* explicit dest at which no file exists is returned unchanged.
C11_NoOverwrite ==
    ret.kind = "command" =>
        /\ ~existsSync(fs, ret.dest)
        /\ \E i \in 1..Len(ret.checked) : ret.checked[i] = ret.dest
        /\ ret.dest # subler.source
        /\ normalize(ret.dest) # normalize(subler.source)
        /\ ret.args[4] = EscapePath(ret.dest)
        /\ (Truthy(subler.dest) /\ ~existsSync(fs, subler.dest)) => ret.dest = subler.dest

C11_Witness ==
    /\ ret.kind = "command"
    /\ subler.dest = subler.source
    /\ ret.dest = Candidate(subler.source, 0)
    /\ normalize(DestPlain) \in fs

====
